---- MODULE Spec2Model ----
(***************************************************************************)
(* Model of the sensor-data service (src/src/services/data.ts) and of its  *)
(* earlier variant (src/unnamed/part_001).                                 *)
(*                                                                         *)
(* Conventions.                                                            *)
(*  - Time is in milliseconds, counted from an epoch shifted so that the   *)
(*    values fit TLC's integers; ClockStart is later than every window     *)
(*    the requests use, as the real clock is.                              *)
(*  - Temperature and humidity are decimal numbers carried as integers in  *)
(*    thousandths (21123 is 21.123); toFixed(2) rounds to hundredths.      *)
(*  - A JavaScript number that may be Infinity or NaN is a record          *)
(*    [k, v]: Fin(n), PosInfinity, NaN.                                    *)
(*  - A store key "data_<segment>_<device>" is the record [seg, dev]; the  *)
(*    segment is Seg(n) for the decimal rendering of n and BadSeg for a    *)
(*    text Number() cannot read.                                           *)
(***************************************************************************)
EXTENDS Integers, Sequences, FiniteSets, TLC

VARIABLES
    clock,          \* Date.now()
    nTicks,         \* how often the clock advanced
    store,          \* ARDUINO_DATA_KV: set of [key, value, expiration]
    nPosts,         \* number of POST requests received so far
    postPc,         \* position of the POST handler
    postReq,        \* the request being / last handled by POST
    postKey,        \* the key built at data.ts:155
    postResponse,   \* status of the last POST response (0: none yet)
    postPut,        \* whether the last POST called put
    getPc,          \* position of the GET handler
    getReq,         \* the query string of the GET request
    nGets,          \* number of GET requests started
    timeScale, limit, cutoffTime, timeWindowMs,   \* locals of GET
    cursor,         \* the keys the listing has handed out so far
    collectedKeys,  \* sequence of retained keys
    nLists,         \* list round-trips of this scan
    fetchLog,       \* sequence of [key, found] for each get of this scan
    readings,       \* sequence of fetched values
    aggregationLevel,
    response,       \* [status, body] of the last GET
    putSinceGet,    \* whether a put happened since the last GET began
    aggPc, aggReadings, aggLimit, aggTimeScale, aggCount, aggLevel, aggOut

svcVars == <<clock, nTicks, store, nPosts, postPc, postReq, postKey, postResponse, postPut>>
getVars == <<getPc, getReq, nGets, timeScale, limit, cutoffTime, timeWindowMs, cursor,
             collectedKeys, nLists, fetchLog, readings, aggregationLevel, response,
             putSinceGet>>
aggVars == <<aggPc, aggReadings, aggLimit, aggTimeScale, aggCount, aggLevel, aggOut>>
vars == <<svcVars, getVars, aggVars>>

----------------------------------------------------------------------------
(* JavaScript numbers *)

Fin(n) == [k |-> "fin", v |-> n]
PosInfinity == [k |-> "inf", v |-> 0]
NaN == [k |-> "nan", v |-> 0]

Max(a, b) == IF a >= b THEN a ELSE b
Min(a, b) == IF a <= b THEN a ELSE b

\* Math.ceil(a / b) for b > 0
CeilDiv(a, b) == -((-a) \div b)

\* Math.max(a, x) for a finite a and a number x
MathMax(a, x) ==
    CASE x.k = "inf" -> PosInfinity
      [] x.k = "nan" -> NaN
      [] OTHER -> Fin(Max(a, x.v))

\* x <= 0 as JavaScript compares
LeqZero(x) == x.k = "fin" /\ x.v <= 0

\* Number(x.toFixed(2)) of the mean sum / n; sum in thousandths, result in
\* thousandths. toFixed picks the nearest hundredth and, of two equally near,
\* the larger in magnitude.
RoundHalfUp(num, den) == (2 * num + den) \div (2 * den)
toFixed2(sum, n) ==
    IF sum >= 0 THEN 10 * RoundHalfUp(sum, 10 * n)
    ELSE -(10 * RoundHalfUp(-sum, 10 * n))

----------------------------------------------------------------------------
(* Time scales *)

TimeScale == {"30m", "1h", "6h", "24h", "7d", "30d", "all"}

getTimeWindowMs(ts) ==
    CASE ts = "30m" -> Fin(30 * 60 * 1000)
      [] ts = "1h" -> Fin(60 * 60 * 1000)
      [] ts = "6h" -> Fin(6 * 60 * 60 * 1000)
      [] ts = "24h" -> Fin(24 * 60 * 60 * 1000)
      [] ts = "7d" -> Fin(7 * 24 * 60 * 60 * 1000)
      [] ts = "30d" -> Fin(30 * 24 * 60 * 60 * 1000)
      [] ts = "all" -> PosInfinity
      [] OTHER -> Fin(24 * 60 * 60 * 1000)

minBucketSize == 15 * 1000

determineAggregationLevel_noFloor(dataCount, windowMs, lim) ==
    IF dataCount <= lim THEN Fin(1)
    ELSE LET reductionFactor == CeilDiv(dataCount, lim)
         IN  IF windowMs.k = "inf" THEN PosInfinity
             ELSE Fin(CeilDiv(windowMs.v * reductionFactor, lim))

\* lim >= 1. (windowMs / lim) * reductionFactor is taken exactly.
determineAggregationLevel(dataCount, windowMs, lim) ==
    IF dataCount <= lim THEN Fin(1)
    ELSE LET reductionFactor == CeilDiv(dataCount, lim)
             estimatedBucketSize ==
                 IF windowMs.k = "inf" THEN PosInfinity
                 ELSE Fin(CeilDiv(windowMs.v * reductionFactor, lim))
         IN  MathMax(minBucketSize, estimatedBucketSize)

----------------------------------------------------------------------------
(* Aggregation *)

NoDevice == "<undefined>"

\* Math.floor(timestamp / bucketSizeMs) * bucketSizeMs, bucketSizeMs > 0 or
\* not finite: x / Infinity is 0 and 0 * Infinity is NaN.
BucketKey(timestamp, bucketSizeMs) ==
    IF bucketSizeMs.k = "fin"
    THEN Fin((timestamp \div bucketSizeMs.v) * bucketSizeMs.v)
    ELSE NaN

RECURSIVE IndexOfKey(_, _, _)
\* position of the bucket with this key in the Map's entries, 0 if none
IndexOfKey(buckets, key, i) ==
    IF i > Len(buckets) THEN 0
    ELSE IF buckets[i].key = key THEN i
    ELSE IndexOfKey(buckets, key, i + 1)

SeqContains(s, x) == \E i \in 1..Len(s) : s[i] = x

\* one iteration of the grouping loop: Map entries keep insertion order,
\* deviceIds is a Set (insertion order, no repeats)
AddToBucket(buckets, reading, bucketSizeMs) ==
    LET key == BucketKey(reading.timestamp, bucketSizeMs)
        at == IndexOfKey(buckets, key, 1)
        withKey == IF at = 0
                   THEN Append(buckets, [key |-> key, temperature |-> <<>>,
                                         humidity |-> <<>>, deviceIds |-> <<>>])
                   ELSE buckets
        j == IF at = 0 THEN Len(withKey) ELSE at
        b == withKey[j]
    IN  [withKey EXCEPT ![j] =
            [key |-> b.key,
             temperature |-> Append(b.temperature, reading.temperature),
             humidity |-> Append(b.humidity, reading.humidity),
             deviceIds |-> IF reading.deviceId # NoDevice /\ reading.deviceId # ""
                              /\ ~SeqContains(b.deviceIds, reading.deviceId)
                           THEN Append(b.deviceIds, reading.deviceId)
                           ELSE b.deviceIds]]

RECURSIVE GroupReadings(_, _, _, _)
GroupReadings(rs, i, bucketSizeMs, buckets) ==
    IF i > Len(rs) THEN buckets
    ELSE GroupReadings(rs, i + 1, bucketSizeMs, AddToBucket(buckets, rs[i], bucketSizeMs))

RECURSIVE SumSeq(_, _)
SumSeq(s, i) == IF i > Len(s) THEN 0 ELSE s[i] + SumSeq(s, i + 1)

\* the aggregated reading of one bucket; deviceId is the sequence of the ids
\* that join(",") concatenates (empty: undefined)
BucketAverage(b) ==
    [timestamp |-> b.key,
     temperature |-> toFixed2(SumSeq(b.temperature, 1), Len(b.temperature)),
     humidity |-> toFixed2(SumSeq(b.humidity, 1), Len(b.humidity)),
     deviceId |-> b.deviceIds]

\* b.timestamp - a.timestamp > 0 for bucket timestamps (NaN compares false)
NewerBucket(b, a) == b.timestamp.k = "fin" /\ a.timestamp.k = "fin"
                     /\ b.timestamp.v > a.timestamp.v

RECURSIVE InsertBucket(_, _)
\* stable insertion keeping newest first
InsertBucket(sorted, x) ==
    IF sorted = <<>> THEN <<x>>
    ELSE IF NewerBucket(x, Head(sorted)) THEN <<x>> \o sorted
    ELSE <<Head(sorted)>> \o InsertBucket(Tail(sorted), x)

RECURSIVE SortAggregated(_, _, _)
SortAggregated(s, i, acc) ==
    IF i > Len(s) THEN acc ELSE SortAggregated(s, i + 1, InsertBucket(acc, s[i]))

\* Array.prototype.slice(0, lim)
Slice(s, lim) ==
    IF lim >= 0 THEN SubSeq(s, 1, Min(lim, Len(s)))
    ELSE SubSeq(s, 1, Max(0, Len(s) + lim))

Averages(buckets) == [i \in 1..Len(buckets) |-> BucketAverage(buckets[i])]

aggregateReadings_sliceFirst(rs, bucketSizeMs, lim) ==
    IF Len(rs) = 0 \/ LeqZero(bucketSizeMs) THEN <<>>
    ELSE LET aggregated == Averages(GroupReadings(rs, 1, bucketSizeMs, <<>>))
         IN  SortAggregated(Slice(aggregated, lim), 1, <<>>)

aggregateReadings(rs, bucketSizeMs, lim) ==
    IF Len(rs) = 0 \/ LeqZero(bucketSizeMs) THEN <<>>
    ELSE LET aggregated == Averages(GroupReadings(rs, 1, bucketSizeMs, <<>>))
         IN  Slice(SortAggregated(aggregated, 1, <<>>), lim)

----------------------------------------------------------------------------
(* The earlier variant's aggregator (src/unnamed/part_001) *)

legacyBucketSize(scale) ==
    CASE scale = "raw" -> 1
      [] scale = "30s" -> 30000
      [] scale = "1m" -> 60000
      [] scale = "5m" -> 300000
      [] scale = "1h" -> 3600000
      [] scale = "6h" -> 21600000
      [] scale = "24h" -> 86400000
      [] scale = "7d" -> 604800000
      [] scale = "30d" -> 2592000 * 1000
      [] OTHER -> 3600000

\* no guard on empty input, no device ids
legacyAggregateReadings(rs, scale, lim) ==
    LET bucketSize == Fin(legacyBucketSize(scale))
        noIds == [i \in 1..Len(rs) |-> [rs[i] EXCEPT !.deviceId = NoDevice]]
        aggregated == Averages(GroupReadings(noIds, 1, bucketSize, <<>>))
    IN  Slice(SortAggregated(aggregated, 1, <<>>), lim)

----------------------------------------------------------------------------
(* Values as they arrive on the wire and as zod reads them *)

\* a field of a request as sent: absent, a decimal number, or other text
Absent == <<"absent", 0>>
Text == <<"text", 0>>
Num(n) == <<"num", n>>

\* what the handler holds before validation
Undefined == <<"undefined", 0>>
Null == <<"null", 0>>
JsNumber(n) == <<"number", n>>
JsString(n) == <<"string", n>>

\* a property of the parsed JSON body
JsonGet(f) ==
    CASE f[1] = "absent" -> Undefined
      [] f[1] = "num" -> JsNumber(f[2])
      [] OTHER -> Text

\* FormData.get / URLSearchParams.get: null when absent, else the text
ParamGet(f) ==
    CASE f[1] = "absent" -> Null
      [] f[1] = "num" -> JsString(f[2])
      [] OTHER -> Text

\* z.number().safeParse(x).data
zNumber(x) == IF x[1] = "number" THEN x ELSE Undefined

\* z.coerce.number().safeParse(x).data: Number(x), refused when NaN.
\* Number(null) is 0, Number(undefined) and Number("hot") are NaN.
zCoerceNumber(x) ==
    CASE x[1] = "number" -> x
      [] x[1] = "string" -> JsNumber(x[2])
      [] x[1] = "null" -> JsNumber(0)
      [] OTHER -> Undefined

IsNumber(x) == x[1] = "number"

\* z.enum(enumToZod(TimeScale)).safeParse(param).data ?? "24h"
ParseTimeScale(param) == IF param \in TimeScale THEN param ELSE "24h"

DefaultLimit == 1000

\* z.number().safeParse(url.searchParams.get("limit")).data ?? 1000
ParseLimit(param) ==
    LET parsed == zNumber(ParamGet(param))
    IN  IF parsed = Undefined THEN DefaultLimit ELSE parsed[2]

----------------------------------------------------------------------------
(* The key-value store *)

\* the text of a key's second "_"-delimited segment
Seg(n) == JsString(n)
BadSeg == Text

Key(seg, dev) == [seg |-> seg, dev |-> dev]

expirationTtl == 86400 * 1000

Entry(k, v, exp) == [key |-> k, value |-> v, expiration |-> exp]

\* an entry without expiration has expiration 0
Live(e, now) == e.expiration = 0 \/ now < e.expiration

LiveKeys(st, now) == { e.key : e \in { x \in st : Live(x, now) } }

\* KV.put: one value per key
KvPut(st, k, v, exp) == { e \in st : e.key # k } \cup { Entry(k, v, exp) }

\* KV.get(key, "json"): the set holding the value, empty for null
KvGet(st, k, now) == { e.value : e \in { x \in st : x.key = k /\ Live(x, now) } }

Reading(t, temp, hum, dev) ==
    [timestamp |-> t, temperature |-> temp, humidity |-> hum, deviceId |-> dev]

----------------------------------------------------------------------------
(* POST / *)

MaxPosts == 2
MaxTicks == 1
MaxGets == 1
PageSize == 2
ClockStart == 100000000

ContentTypes == {"application/json", "application/x-www-form-urlencoded", "text/plain"}

\* a request has at most one of the two required fields missing or not a number
PostRequests ==
    { req \in [contentType : ContentTypes,
               temperature : {Absent, Text, Num(21123)},
               humidity : {Absent, Text, Num(55000)},
               deviceId : {NoDevice, "a"}] :
        req.temperature[1] = "num" \/ req.humidity[1] = "num" }

\* the payload the content-type switch builds
Payload(req) ==
    LET get(f) == IF req.contentType = "application/json" THEN JsonGet(f) ELSE ParamGet(f)
    IN  [humidity |-> zCoerceNumber(get(req.humidity)),
         temperature |-> zCoerceNumber(get(req.temperature)),
         deviceId |-> req.deviceId]

\* payload.deviceId || "default"
KeyDevice(dev) == IF dev = NoDevice \/ dev = "" THEN "default" ELSE dev

\* up to the key built from the first Date.now()
PostReceive(req) ==
    /\ postPc = "idle"
    /\ nPosts < MaxPosts
    /\ nPosts' = nPosts + 1
    /\ postReq' = req
    /\ LET payload == Payload(req)
       IN  IF ~IsNumber(payload.temperature) \/ ~IsNumber(payload.humidity)
           THEN /\ postResponse' = 400
                /\ postPut' = FALSE
                /\ UNCHANGED <<postPc, postKey>>
           ELSE /\ postKey' = Key(Seg(clock), KeyDevice(payload.deviceId))
                /\ postPc' = "stamped"
                /\ postResponse' = 0
                /\ postPut' = FALSE
    /\ UNCHANGED <<clock, nTicks, store, getVars>>
    /\ UNCHANGED aggVars

\* the value stamped with the second Date.now(), the put and the response
PostPut ==
    /\ postPc = "stamped"
    /\ LET payload == Payload(postReq)
           data == Reading(clock, payload.temperature[2], payload.humidity[2],
                           payload.deviceId)
       IN  store' = KvPut(store, postKey, data, clock + expirationTtl)
    /\ postResponse' = 201
    /\ postPut' = TRUE
    /\ postPc' = "idle"
    /\ putSinceGet' = TRUE
    /\ UNCHANGED <<clock, nTicks, nPosts, postReq, postKey>>
    /\ UNCHANGED <<getPc, getReq, nGets, timeScale, limit, cutoffTime, timeWindowMs, cursor,
                   collectedKeys, nLists, fetchLog, readings, aggregationLevel, response>>
    /\ UNCHANGED aggVars

LegacyRequests ==
    [contentType : ContentTypes,
     timestamp : {Absent, Num(0)},
     temperature : {Text, Num(10000)},
     humidity : {Num(40000)},
     deviceId : {NoDevice}]

\* POST / of the earlier variant, whose records live in the same namespace:
\* the timestamp may come from the client, fields are read with z.number()
LegacyPost(req) ==
    /\ postPc = "idle"
    /\ nPosts < MaxPosts
    /\ nPosts' = nPosts + 1
    /\ LET json == req.contentType = "application/json"
           form == req.contentType = "application/x-www-form-urlencoded"
           get(f) == IF json THEN JsonGet(f) ELSE ParamGet(f)
           stamp == zNumber(get(req.timestamp))
           data == IF json \/ form
                   THEN [timestamp |-> IF stamp = Undefined THEN JsNumber(clock) ELSE stamp,
                         humidity |-> zNumber(get(req.humidity)),
                         temperature |-> zNumber(get(req.temperature)),
                         deviceId |-> req.deviceId]
                   ELSE [timestamp |-> Undefined, humidity |-> Undefined,
                         temperature |-> Undefined, deviceId |-> NoDevice]
       IN  IF ~IsNumber(data.temperature) \/ ~IsNumber(data.humidity)
           THEN UNCHANGED <<store, putSinceGet>>
           ELSE /\ store' = KvPut(store,
                                  Key(Seg(data.timestamp[2]), KeyDevice(data.deviceId)),
                                  Reading(data.timestamp[2], data.temperature[2],
                                          data.humidity[2], data.deviceId),
                                  clock + expirationTtl)
                /\ putSinceGet' = TRUE
    /\ UNCHANGED <<clock, nTicks, postPc, postReq, postKey, postResponse, postPut>>
    /\ UNCHANGED <<getPc, getReq, nGets, timeScale, limit, cutoffTime, timeWindowMs, cursor,
                   collectedKeys, nLists, fetchLog, readings, aggregationLevel, response>>
    /\ UNCHANGED aggVars

\* the clock advances between any two steps
TickSteps == {1, 30 * 60 * 1000 + 1, 24 * 60 * 60 * 1000}

Tick(d) ==
    /\ nTicks < MaxTicks
    /\ nTicks' = nTicks + 1
    /\ clock' = clock + d
    /\ UNCHANGED <<store, nPosts, postPc, postReq, postKey, postResponse, postPut, getVars>>
    /\ UNCHANGED aggVars

----------------------------------------------------------------------------
(* GET / *)

GetRequests == [timeScale : {"30m", "all", "bogus"}, limit : {Absent, Num(1)}]

\* the filter of one listed key: key.name.split("_")[1] read with
\* z.coerce.number(), then timeStamp && timeStamp >= cutoffTime
KeyFilter(key, cutoff) ==
    LET timeStamp == zCoerceNumber(key.seg)
    IN  /\ timeStamp # Undefined
        /\ timeStamp[2] # 0
        /\ timeStamp[2] >= cutoff

\* the keys kept by keys.filter, in the order of the page
RECURSIVE FilterKeys(_, _, _)
FilterKeys(page, i, cutoff) ==
    IF i > Len(page) THEN <<>>
    ELSE (IF KeyFilter(page[i], cutoff) THEN <<page[i]>> ELSE <<>>)
         \o FilterKeys(page, i + 1, cutoff)

\* the pages list({cursor}) may return next: PageSize keys not handed out
\* yet (all of them when fewer are left), in any order
Pages(st, now, listed) ==
    LET left == LiveKeys(st, now) \ listed
        m == Min(PageSize, Cardinality(left))
    IN  { p \in [1..m -> left] : \A i \in 1..m, j \in 1..m : i # j => p[i] # p[j] }

Range(f) == { f[i] : i \in DOMAIN f }

\* lines 47-57 for a time scale and a limit
GetBegin(scale, lim) ==
    /\ getPc \in {"idle", "done"}
    /\ nGets' = nGets + 1
    /\ timeScale' = scale
    /\ limit' = lim
    /\ timeWindowMs' = getTimeWindowMs(scale)
    /\ cutoffTime' = IF scale # "all" THEN clock - getTimeWindowMs(scale).v ELSE 0
    /\ collectedKeys' = <<>>
    /\ cursor' = {}
    /\ nLists' = 0
    /\ fetchLog' = <<>>
    /\ readings' = <<>>
    /\ putSinceGet' = FALSE
    /\ getPc' = IF 0 < lim THEN "list" ELSE "fetch"
    /\ UNCHANGED <<aggregationLevel, response, svcVars>>
    /\ UNCHANGED aggVars

\* the handler from the request's query string
GetStart(req) ==
    /\ nGets < MaxGets
    /\ GetBegin(ParseTimeScale(req.timeScale), ParseLimit(req.limit))
    /\ getReq' = req

\* one round of the scan loop: list, filter, push, test list_complete, and
\* the loop condition for the next round
ListPage_noEarlyStop(page) ==
    /\ getPc = "list"
    /\ page \in Pages(store, clock, cursor)
    /\ nLists' = nLists + 1
    /\ collectedKeys' = collectedKeys \o FilterKeys(page, 1, cutoffTime)
    /\ cursor' = cursor \cup Range(page)
    /\ getPc' = IF LiveKeys(store, clock) \ cursor' = {} THEN "fetch" ELSE "list"
    /\ UNCHANGED <<getReq, nGets, timeScale, limit, cutoffTime, timeWindowMs, fetchLog,
                   readings, aggregationLevel, response, putSinceGet, svcVars>>
    /\ UNCHANGED aggVars

ListPage(page) ==
    /\ getPc = "list"
    /\ page \in Pages(store, clock, cursor)
    /\ nLists' = nLists + 1
    /\ collectedKeys' = collectedKeys \o FilterKeys(page, 1, cutoffTime)
    /\ cursor' = cursor \cup Range(page)
    /\ LET list_complete == LiveKeys(store, clock) \ cursor' = {}
       IN  getPc' = IF list_complete \/ ~(Len(collectedKeys') < limit)
                    THEN "fetch" ELSE "list"
    /\ UNCHANGED <<getReq, nGets, timeScale, limit, cutoffTime, timeWindowMs, fetchLog,
                   readings, aggregationLevel, response, putSinceGet, svcVars>>
    /\ UNCHANGED aggVars

\* one round of the fetch loop
FetchValue ==
    /\ getPc = "fetch"
    /\ Len(fetchLog) < Len(collectedKeys)
    /\ LET key == collectedKeys[Len(fetchLog) + 1]
           value == KvGet(store, key, clock)
       IN  /\ fetchLog' = Append(fetchLog, [key |-> key, found |-> value # {}])
           /\ readings' = IF value # {}
                          THEN Append(readings, CHOOSE v \in value : TRUE)
                          ELSE readings
    /\ UNCHANGED <<getPc, getReq, nGets, timeScale, limit, cutoffTime, timeWindowMs, cursor,
                   collectedKeys, nLists, aggregationLevel, response, putSinceGet, svcVars>>
    /\ UNCHANGED aggVars

RECURSIVE InsertReading(_, _)
\* readings.sort((a, b) => b.timestamp - a.timestamp), a stable sort
InsertReading(sorted, x) ==
    IF sorted = <<>> THEN <<x>>
    ELSE IF x.timestamp > Head(sorted).timestamp THEN <<x>> \o sorted
    ELSE <<Head(sorted)>> \o InsertReading(Tail(sorted), x)

RECURSIVE SortReadings(_, _, _)
SortReadings(s, i, acc) ==
    IF i > Len(s) THEN acc ELSE SortReadings(s, i + 1, InsertReading(acc, s[i]))

\* lines 87-101
Respond ==
    /\ getPc = "fetch"
    /\ Len(fetchLog) = Len(collectedKeys)
    /\ readings' = SortReadings(readings, 1, <<>>)
    /\ aggregationLevel' = determineAggregationLevel(Len(readings), timeWindowMs, limit)
    /\ response' = [status |-> 200,
                    body |-> aggregateReadings(readings', aggregationLevel', limit)]
    /\ getPc' = "done"
    /\ UNCHANGED <<getReq, nGets, timeScale, limit, cutoffTime, timeWindowMs, cursor,
                   collectedKeys, nLists, fetchLog, putSinceGet, svcVars>>
    /\ UNCHANGED aggVars

----------------------------------------------------------------------------
(* The service *)

\* a key another writer left in the namespace, with no timestamp to read
MalformedEntry ==
    Entry(Key(BadSeg, "x"), Reading(ClockStart, 10000, 40000, NoDevice), 0)

GetInit ==
    /\ getPc = "idle" /\ getReq = <<>> /\ nGets = 0
    /\ timeScale = "24h" /\ limit = 0 /\ cutoffTime = 0 /\ timeWindowMs = Fin(0)
    /\ cursor = {} /\ collectedKeys = <<>> /\ nLists = 0 /\ fetchLog = <<>>
    /\ readings = <<>> /\ aggregationLevel = Fin(1)
    /\ response = [status |-> 0, body |-> <<>>]
    /\ putSinceGet = FALSE

AggAtRest ==
    /\ aggPc = "input" /\ aggReadings = <<>> /\ aggLimit = 1 /\ aggTimeScale = "none"
    /\ aggCount = 0 /\ aggLevel = Fin(1) /\ aggOut = <<>>

Init ==
    /\ clock = ClockStart
    /\ nTicks = 0
    /\ store \in { {}, {MalformedEntry} }
    /\ nPosts = 0
    /\ postPc = "idle" /\ postReq = <<>> /\ postKey = <<>>
    /\ postResponse = 0 /\ postPut = FALSE
    /\ GetInit
    /\ AggAtRest

Next ==
    \/ \E req \in PostRequests : PostReceive(req)
    \/ PostPut
    \/ \E req \in LegacyRequests : LegacyPost(req)
    \/ \E d \in TickSteps : Tick(d)
    \/ \E req \in GetRequests : GetStart(req)
    \/ \E page \in Pages(store, clock, cursor) : ListPage(page)
    \/ FetchValue
    \/ Respond

Spec == Init /\ [][Next]_vars

----------------------------------------------------------------------------
(* Properties of the service, under Spec *)

\* the limit the caller asked for: the integer in the query string, 1000
\* without one
RequestedLimit(req) == IF req.limit[1] = "num" THEN req.limit[2] ELSE 1000

\* C1: the array a GET returns has at most as many elements as the limit the
\* caller requested in the query string (1000 when there is none).
C1_BodyWithinRequestedLimit ==
    getPc = "done" => Len(response.body) <= RequestedLimit(getReq)

KeyTimestamp(key) == key.seg[2]
ParsableKey(key) == key.seg[1] = "string"

\* C3: a reading written by a POST that completed before the GET began, not
\* expired and inside the requested window, is returned with its temperature
\* and humidity whenever the GET is served in raw mode (bucket width 1).
C3_RoundTripRawMode ==
    (getPc = "done" /\ ~putSinceGet /\ aggregationLevel = Fin(1)) =>
        \A e \in store :
            ( /\ Live(e, clock)
              /\ ParsableKey(e.key)
              /\ KeyTimestamp(e.key) >= ClockStart
              /\ KeyTimestamp(e.key) >= cutoffTime
              /\ e.value.timestamp >= cutoffTime )
            => \E i \in 1..Len(response.body) :
                  /\ response.body[i].temperature = e.value.temperature
                  /\ response.body[i].humidity = e.value.humidity

\* C4: in every record a writer persists, the timestamp read from the second
\* segment of the key equals the timestamp field of the value.
C4_KeyTimestampIsValueTimestamp ==
    \A e \in store : ParsableKey(e.key) => KeyTimestamp(e.key) = e.value.timestamp

MissingOrNotNumeric(f) == f[1] # "num"

\* C5: a POST whose temperature or humidity is missing or not a number is
\* answered with 400 and puts nothing, whichever encoding carried it.
C5_InvalidPostRejected ==
    (postPc = "idle" /\ postReq # <<>>
        /\ (MissingOrNotNumeric(postReq.temperature) \/ MissingOrNotNumeric(postReq.humidity)))
    => (postResponse = 400 /\ ~postPut)

FoundValues(log) == { i \in 1..Len(log) : log[i].found }

\* C10: a GET answers 200 from exactly the listed keys with a parsable
\* timestamp at or after the cutoff whose value was present when fetched;
\* unparsable keys and vanished values are left out without an error.
C10_BuiltFromListedKeys ==
    getPc = "done" =>
        /\ response.status = 200
        /\ Range(collectedKeys)
             = { k \in cursor : ParsableKey(k) /\ KeyTimestamp(k) >= cutoffTime }
        /\ Len(fetchLog) = Len(collectedKeys)
        /\ \A i \in 1..Len(fetchLog) : fetchLog[i].key = collectedKeys[i]
        /\ Len(readings) = Cardinality(FoundValues(fetchLog))
        /\ response.body = aggregateReadings(readings, aggregationLevel, limit)

----------------------------------------------------------------------------
(* The scan for any limit, over a store that does not change *)

MaxOld == 5
MaxRecent == 3
MaxScanLimit == 3
ScanSlack == 1

ScanScales == {"30m", "all"}

\* a record written i ms before the 30-minute cutoff at ClockStart
OldEntry(i) ==
    LET t == ClockStart - 30 * 60 * 1000 - i
    IN  Entry(Key(Seg(t), "default"), Reading(t, 10000, 55000, NoDevice), t + expirationTtl)

\* a record written j ms before ClockStart
RecentEntry(j) ==
    LET t == ClockStart - j
    IN  Entry(Key(Seg(t), "default"), Reading(t, 21120, 55000, NoDevice), t + expirationTtl)

ScanStores ==
    { { OldEntry(i) : i \in 1..a } \cup { RecentEntry(j) : j \in 1..b } :
        a \in 0..MaxOld, b \in 0..MaxRecent }

ScanInit ==
    /\ clock = ClockStart
    /\ nTicks = 0
    /\ store \in ScanStores
    /\ nPosts = 0
    /\ postPc = "idle" /\ postReq = <<>> /\ postKey = <<>>
    /\ postResponse = 0 /\ postPut = FALSE
    /\ GetInit
    /\ AggAtRest

\* lines 47-57 with the limit as an input
ScanStart(scale, lim) ==
    /\ getPc = "idle"
    /\ GetBegin(scale, lim)
    /\ getReq' = <<>>

\* the pages whose keys come in the order of their names; the keys of
\* ScanStores differ in the timestamp alone
PagesInNameOrder(st, now, listed) ==
    { p \in Pages(st, now, listed) :
        \A i \in 1..Len(p), j \in 1..Len(p) : i < j => p[i].seg[2] < p[j].seg[2] }

ScanNext ==
    \/ \E scale \in ScanScales, lim \in 1..MaxScanLimit : ScanStart(scale, lim)
    \/ \E page \in PagesInNameOrder(store, clock, cursor) : ListPage(page)
    \/ FetchValue
    \/ Respond

SpecScan == ScanInit /\ [][ScanNext]_vars

ScanOver == getPc \in {"fetch", "done"}

\* C2 as stated: one scan makes at most ceil(limit / page_size) list
\* round-trips, up to a constant, however many keys the store holds.
C2_ListsBoundedByLimit ==
    ScanOver => nLists <= CeilDiv(limit, PageSize) + ScanSlack

\* C2 amended: one scan makes at most one list round-trip per page the store
\* holds (one for an empty store), and at most ceil(limit / page_size) when
\* every listed key is retained; it requests no page after the retained keys
\* reach limit. Keys the filter drops do not count towards limit.
C2_ListsBoundedByPages ==
    ScanOver =>
        /\ nLists <= Max(1, CeilDiv(Cardinality(LiveKeys(store, clock)), PageSize))
        /\ Len(collectedKeys) = Cardinality(cursor) => nLists <= CeilDiv(limit, PageSize)
        /\ Len(collectedKeys) < limit + PageSize
        /\ Len(collectedKeys) < limit => cursor = LiveKeys(store, clock)

\* a scan that stopped early: every listed key retained, keys left unlisted
C2_Witness ==
    /\ ScanOver
    /\ nLists = CeilDiv(limit, PageSize)
    /\ Len(collectedKeys) = Cardinality(cursor)
    /\ Len(collectedKeys) >= limit
    /\ cursor # LiveKeys(store, clock)

----------------------------------------------------------------------------
(* The selector and the aggregator as functions of their arguments *)

MaxLen == 3
MaxLimit == 2

AggReadings ==
    { Reading(1000, 10000, 55000, NoDevice), Reading(1000, 21123, 55000, "a"),
      Reading(2000, 10000, 40000, "a"),      Reading(2000, 21120, 55000, "b"),
      Reading(31000, 10000, 55000, NoDevice), Reading(31000, 21123, 40000, "a") }

AggInputs == UNION { [1..n -> AggReadings] : n \in 0..MaxLen }

AggScales == {"30m", "24h", "all", "bogus"}
AggWidths == {Fin(0), Fin(1), Fin(2000), Fin(15000)}
LegacyScales == {"raw", "30s", "bogus"}

\* (dataCount, limit) pairs for the selector alone
SelCases == { <<0, 1>>, <<3, 1>>, <<1000, 1000>>, <<1001, 1000>>, <<2001, 1000>> }

AggInit ==
    /\ aggPc = "input"
    /\ aggReadings \in AggInputs
    /\ aggLimit \in 1..MaxLimit
    /\ aggTimeScale = "none"
    /\ aggCount = Len(aggReadings)
    /\ aggLevel = Fin(1)
    /\ aggOut = <<>>

\* data.ts:91 on the readings at hand
Determine(scale) ==
    /\ aggPc = "input"
    /\ aggTimeScale' = scale
    /\ aggLevel' = determineAggregationLevel(Len(aggReadings), getTimeWindowMs(scale), aggLimit)
    /\ aggPc' = "level"
    /\ UNCHANGED <<aggReadings, aggLimit, aggCount, aggOut>>
    /\ UNCHANGED <<svcVars, getVars>>

\* data.ts:92-96 with that level
AggregateLevel ==
    /\ aggPc = "level"
    /\ aggOut' = aggregateReadings(aggReadings, aggLevel, aggLimit)
    /\ aggPc' = "piped"
    /\ UNCHANGED <<aggReadings, aggLimit, aggTimeScale, aggCount, aggLevel>>
    /\ UNCHANGED <<svcVars, getVars>>

\* determineAggregationLevel on a count and a limit alone
DetermineFor(c, scale) ==
    /\ aggPc = "input"
    /\ aggReadings = <<>>
    /\ aggLimit = 1
    /\ aggCount' = c[1]
    /\ aggLimit' = c[2]
    /\ aggTimeScale' = scale
    /\ aggLevel' = determineAggregationLevel(c[1], getTimeWindowMs(scale), c[2])
    /\ aggPc' = "selected"
    /\ UNCHANGED <<aggReadings, aggOut>>
    /\ UNCHANGED <<svcVars, getVars>>

\* aggregateReadings on any bucket size
AggregateWidth(w) ==
    /\ aggPc = "input"
    /\ aggLevel' = w
    /\ aggOut' = aggregateReadings(aggReadings, w, aggLimit)
    /\ aggPc' = "done"
    /\ UNCHANGED <<aggReadings, aggLimit, aggTimeScale, aggCount>>
    /\ UNCHANGED <<svcVars, getVars>>

\* the earlier variant's aggregateReadings
AggregateLegacy(scale) ==
    /\ aggPc = "input"
    /\ aggTimeScale' = scale
    /\ aggLevel' = Fin(legacyBucketSize(scale))
    /\ aggOut' = legacyAggregateReadings(aggReadings, scale, aggLimit)
    /\ aggPc' = "done"
    /\ UNCHANGED <<aggReadings, aggLimit, aggCount>>
    /\ UNCHANGED <<svcVars, getVars>>

AggNext ==
    \/ \E scale \in AggScales : Determine(scale)
    \/ AggregateLevel
    \/ \E c \in SelCases, scale \in AggScales : DetermineFor(c, scale)
    \/ \E w \in AggWidths : AggregateWidth(w)
    \/ \E scale \in LegacyScales : AggregateLegacy(scale)

\* the service at rest, for the specifications that exercise one part alone
ServiceAtRest ==
    /\ clock = 0 /\ nTicks = 0 /\ store = {} /\ nPosts = 0
    /\ postPc = "idle" /\ postReq = <<>> /\ postKey = <<>>
    /\ postResponse = 0 /\ postPut = FALSE

AggStart == AggInit /\ ServiceAtRest /\ GetInit

SpecAgg == AggStart /\ [][AggNext]_vars

----------------------------------------------------------------------------
(* Properties of the selector and the aggregator, under SpecAgg *)

AtLeast(x, m) == x.k = "inf" \/ (x.k = "fin" /\ x.v >= m)
Selected == aggPc \in {"level", "piped", "selected"}

\* C6 as stated: the bucket width handed to the aggregator is always at
\* least 15 000 ms, whatever the candidate count, the window and the limit.
C6_WidthAlwaysAtLeastFloor == Selected => AtLeast(aggLevel, 15000)

\* C6 amended: the bucket width is at least 15 000 ms whenever the candidate
\* count exceeds the limit, and is exactly 1 (raw mode) otherwise.
C6_WidthAtLeastFloorWhenAggregating ==
    Selected =>
        /\ aggCount > aggLimit => AtLeast(aggLevel, 15000)
        /\ aggCount <= aggLimit => aggLevel = Fin(1)

\* a selection where the floor, not the estimate, decides
C6_Witness ==
    /\ aggPc = "selected" /\ aggCount > aggLimit /\ aggTimeScale = "30m"
    /\ aggLevel = Fin(15000)

Timestamps(rs) == { rs[i].timestamp : i \in 1..Len(rs) }
SetMax(S) == CHOOSE x \in S : \A y \in S : y <= x
SetMin(S) == CHOOSE x \in S : \A y \in S : x <= y

\* the width the claim describes: the selector's estimate taken over the
\* observed span max(timestamp) - min(timestamp)
SpanWidth(rs, lim) ==
    LET span == SetMax(Timestamps(rs)) - SetMin(Timestamps(rs))
    IN  Max(15000, CeilDiv(span * CeilDiv(Len(rs), lim), lim))

\* C7: for the "all" scale with more readings than limit, the bucket width is
\* a finite number of milliseconds derived from the observed span of the
\* readings, and no bucket key is computed from the infinite window.
C7_AllScaleWidthFinite ==
    (Selected /\ aggTimeScale = "all" /\ aggCount > aggLimit) =>
        /\ aggLevel.k = "fin"
        /\ aggPc \in {"level", "piped"} => aggLevel = Fin(SpanWidth(aggReadings, aggLimit))
        /\ aggPc = "piped" => \A i \in 1..Len(aggOut) : aggOut[i].timestamp.k = "fin"

Tuple(t, temp, hum) == <<t, temp, hum>>
InputTuples(rs) ==
    { Tuple(Fin(rs[i].timestamp), rs[i].temperature, rs[i].humidity) : i \in 1..Len(rs) }
OutputTuples(out) ==
    { Tuple(out[i].timestamp, out[i].temperature, out[i].humidity) : i \in 1..Len(out) }

\* C8: with at most limit readings, aggregating with bucket width 1 returns
\* exactly the input's set of (timestamp, temperature, humidity) tuples, also
\* when several readings carry the same timestamp.
C8_RawModePassThrough ==
    (aggPc \in {"done", "piped"} /\ aggLevel = Fin(1) /\ Len(aggReadings) <= aggLimit) =>
        OutputTuples(aggOut) = InputTuples(aggReadings)

BucketStarts(rs, w) == { (rs[i].timestamp \div w) * w : i \in 1..Len(rs) }

\* C9: for a non-empty input, a bucket width > 0 and a limit > 0 the output
\* holds exactly the min(limit, number of buckets) buckets with the largest
\* bucket start floor(timestamp / width) * width, one element each, in
\* strictly descending order of timestamp.
C9_NewestBucketsDescending ==
    (aggPc \in {"done", "piped"} /\ Len(aggReadings) > 0 /\ aggLimit > 0
        /\ aggLevel.k = "fin" /\ aggLevel.v > 0) =>
        LET B == BucketStarts(aggReadings, aggLevel.v)
            n == Len(aggOut)
            outTs == { aggOut[i].timestamp.v : i \in 1..n }
        IN  /\ n = Min(aggLimit, Cardinality(B))
            /\ \A i \in 1..n : aggOut[i].timestamp.k = "fin"
            /\ \A i \in 1..n, j \in 1..n : i < j => aggOut[i].timestamp.v > aggOut[j].timestamp.v
            /\ outTs \subseteq B
            /\ \A b \in B \ outTs : \A o \in outTs : b < o

\* an unsorted input whose buckets outnumber the limit, so the cut drops some
C9_Witness ==
    /\ aggPc = "done" /\ aggLevel = Fin(2000) /\ aggLimit = 2
    /\ Len(aggReadings) = 3
    /\ aggReadings[1].timestamp < aggReadings[2].timestamp
    /\ aggReadings[2].timestamp < aggReadings[3].timestamp
    /\ Cardinality(BucketStarts(aggReadings, 2000)) = 3
    /\ Len(aggOut) = 2
    /\ aggOut[1].timestamp = Fin(30000)

====
